---- MODULE Spec2Model ----
(***************************************************************************)
(* Model of .github/scripts/sync-to-wiki.py: the mkdocs -> GitHub Wiki     *)
(* synchronisation script.                                                 *)
(*                                                                         *)
(* Text is modelled as a sequence of one-character strings, so that the    *)
(* string operations of the script (str.replace, str.strip, re.sub and     *)
(* the two regular expressions) are computed character by character.       *)
(***************************************************************************)
EXTENDS Integers, Sequences, FiniteSets, TLC

VARIABLES
    \* ---- path normalisation (replace_link lines 89-96, parse_nav_item, main)
    npc,            \* position in the normalisation run
    path,           \* the document path given
    wiki_page,      \* replace_link's wiki_page for a link to path
    wiki_page2,     \* the same steps applied to wiki_page
    wiki_name,      \* parse_nav_item's wiki_name for path
    fallback_name,  \* main's fallback wiki_name for path
    \* ---- link rewriting (convert_mkdocs_to_wiki_link)
    lpc,            \* position in the rewriting run
    text,           \* the document text given
    pos,            \* where re.sub's scan stands in text (1-based)
    out,            \* the text returned, as built so far
    \* ---- image references (convert_image_paths.replace_image)
    ipc,            \* position in replace_image
    image_path,     \* group 2 of the image match
    source_file,    \* the document's path under the repository root, by component
    environ_repo,   \* os.environ.get('GITHUB_REPOSITORY'), <<>> when unset
    git,            \* what subprocess.run does: [kind, stdout]
    image_file,     \* the filesystem at the image: [exists, oserror]
    github_repo,    \* the repository identity determined
    image_result,   \* <<>> while the reference is untouched, else the new target
    image_warned,   \* a diagnostic was printed
    \* ---- a run of the script
    pc,             \* where the run stands
    cfg,            \* mkdocs.yml
    dirs,           \* the documentation directories that exist
    docs_files,     \* the markdown files under a documentation directory
    readme_exists,  \* README.md exists
    wiki_exists,    \* the directory wiki exists
    wiki_files,     \* its entries: [name, from]
    DOCS_DIR,       \* line 50
    home,           \* what Home.md was written from
    pages,          \* main's pages: (title, wiki_name) in the order recorded
    sources,        \* the document each entry of pages was recorded for
    agenda,         \* navigation mode: what parse_nav_item has left to do
    scan_left,      \* fallback mode: the files the scan has left to yield
    sidebar,        \* what _Sidebar.md holds: [site_name, lines]
    printed         \* the diagnostics printed

nvars == <<npc, path, wiki_page, wiki_page2, wiki_name, fallback_name>>
lvars == <<lpc, text, pos, out>>
ivars == <<ipc, image_path, source_file, environ_repo, git, image_file, github_repo,
           image_result, image_warned>>
rvars == <<pc, cfg, dirs, docs_files, readme_exists, wiki_exists, wiki_files, DOCS_DIR, home,
           pages, sources, agenda, scan_left, sidebar, printed>>
vars == <<nvars, lvars, ivars, rvars>>

\* what each part of the model leaves alone
notNorm == <<lvars, ivars, rvars>>
notLink == <<nvars, ivars, rvars>>
notImage == <<nvars, lvars, rvars>>
notRun == <<nvars, lvars, ivars>>

-----------------------------------------------------------------------------
(* Bounds *)

\* number of fragments a generated path is made of
MaxPathFrags == 4
\* number of fragments a generated document text is made of
MaxTextFrags == 4
\* number of top-level items of a generated navigation tree
MaxNav == 2
\* number of items of a generated section
MaxChildren == 2

-----------------------------------------------------------------------------
(* Python string primitives *)

StartsWith(s, p) == Len(s) >= Len(p) /\ SubSeq(s, 1, Len(p)) = p

EndsWith(s, p) == Len(s) >= Len(p) /\ SubSeq(s, Len(s) - Len(p) + 1, Len(s)) = p

\* some occurrence of p in s
Contains(s, p) == \E i \in 1..(Len(s) - Len(p) + 1) : SubSeq(s, i, i + Len(p) - 1) = p

\* str.replace(old, new): every non-overlapping occurrence, left to right
RECURSIVE Replace(_, _, _)
Replace(s, old, new) ==
    IF Len(s) < Len(old) THEN s
    ELSE IF SubSeq(s, 1, Len(old)) = old
         THEN new \o Replace(SubSeq(s, Len(old) + 1, Len(s)), old, new)
         ELSE <<Head(s)>> \o Replace(Tail(s), old, new)

\* str.lstrip(chars); also re.sub(r'^[chars]+', '', s)
RECURSIVE LStrip(_, _)
LStrip(s, chars) ==
    IF s # <<>> /\ Head(s) \in chars THEN LStrip(Tail(s), chars) ELSE s

RECURSIVE RStrip(_, _)
RStrip(s, chars) ==
    IF s # <<>> /\ s[Len(s)] \in chars THEN RStrip(SubSeq(s, 1, Len(s) - 1), chars) ELSE s

\* str.strip(chars)
Strip(s, chars) == RStrip(LStrip(s, chars), chars)

\* the first index >= i of s holding character c, 0 when there is none
RECURSIVE Find(_, _, _)
Find(s, c, i) ==
    IF i > Len(s) THEN 0 ELSE IF s[i] = c THEN i ELSE Find(s, c, i + 1)

-----------------------------------------------------------------------------
(* Literals of the script *)

DotMd == <<".", "m", "d">>
DashIndex == <<"-", "i", "n", "d", "e", "x">>
Http == <<"h", "t", "t", "p", ":", "/", "/">>
Https == <<"h", "t", "t", "p", "s", ":", "/", "/">>
Hash == <<"#">>
\* lines 45-47
GITHUB_HTTPS_PREFIX == Https \o <<"g", "i", "t", "h", "u", "b", ".", "c", "o", "m", "/">>
GITHUB_HTTP_PREFIX == Http \o <<"g", "i", "t", "h", "u", "b", ".", "c", "o", "m", "/">>
GITHUB_GIT_PREFIX == <<"g", "i", "t", "@", "g", "i", "t", "h", "u", "b", ".", "c", "o", "m", ":">>
DotGit == <<".", "g", "i", "t">>
\* line 170
RawPrefix ==
    Https \o <<"r", "a", "w", ".", "g", "i", "t", "h", "u", "b", "u", "s", "e", "r",
               "c", "o", "n", "t", "e", "n", "t", ".", "c", "o", "m", "/">>
MainBranch == <<"/", "m", "a", "i", "n", "/">>

-----------------------------------------------------------------------------
(* Path normalisation *)

\* replace_link, lines 89-96: the wiki page a link target is rewritten to
WikiPage(link_path) ==
    LET a == Replace(Replace(Replace(link_path, DotMd, <<>>), <<"/">>, <<"-">>),
                     <<"_">>, <<"-">>)
        b == LStrip(a, {".", "/"})
        c == Strip(b, {"-"})
    IN  Replace(c, DashIndex, <<>>)

\* parse_nav_item, lines 231-232 and 250-251: the name a navigation entry's
\* page is written and recorded under
NavWikiName(value) ==
    Replace(Replace(Replace(Replace(value, DotMd, <<>>), <<"/">>, <<"-">>),
                    <<"_">>, <<"-">>),
            DashIndex, <<>>)

\* main, line 352: the name a scanned file is written and recorded under
FallbackWikiName(rel_path) ==
    Replace(Replace(Replace(rel_path, DotMd, <<>>), <<"/">>, <<"-">>), <<"_">>, <<"-">>)

-----------------------------------------------------------------------------
(* The two regular expressions *)

NoMatch == [ok |-> FALSE, last |-> 0, g1 |-> <<>>, g2 |-> <<>>]

\* line 100: \[([^\]]+)\]\(([^)]+)\) tried at index i of t.  The label cannot
\* hold "]" and the target cannot hold ")", so each group ends at the first
\* such character; both groups need one character at least.
LinkMatch(t, i) ==
    IF i > Len(t) \/ t[i] # "[" THEN NoMatch
    ELSE LET j == Find(t, "]", i + 1)
         IN  IF j <= i + 1 \/ j + 1 > Len(t) \/ t[j + 1] # "(" THEN NoMatch
             ELSE LET k == Find(t, ")", j + 2)
                  IN  IF k <= j + 2 THEN NoMatch
                      ELSE [ok |-> TRUE, last |-> k,
                            g1 |-> SubSeq(t, i + 1, j - 1),
                            g2 |-> SubSeq(t, j + 2, k - 1)]

\* line 178: !\[([^\]]*)\]\(([^)]+)\) tried at index i of t; the alt text may
\* be empty.
ImageMatch(t, i) ==
    IF i + 1 > Len(t) \/ t[i] # "!" \/ t[i + 1] # "[" THEN NoMatch
    ELSE LET j == Find(t, "]", i + 2)
         IN  IF j = 0 \/ j + 1 > Len(t) \/ t[j + 1] # "(" THEN NoMatch
             ELSE LET k == Find(t, ")", j + 2)
                  IN  IF k <= j + 2 THEN NoMatch
                      ELSE [ok |-> TRUE, last |-> k,
                            g1 |-> SubSeq(t, i + 2, j - 1),
                            g2 |-> SubSeq(t, j + 2, k - 1)]

\* line 79: the match starting at i is preceded by "!"
PrecededByBang(t, i) == i > 1 /\ t[i - 1] = "!"

\* line 86: link_path.startswith(('http://', 'https://', '#'))
IsExternalLink(link_path) ==
    StartsWith(link_path, Http) \/ StartsWith(link_path, Https) \/ StartsWith(link_path, Hash)

\* replace_link, lines 77-98: what the match m found at index i of t becomes
replace_link(t, i, m) ==
    IF PrecededByBang(t, i) THEN SubSeq(t, i, m.last)
    ELSE IF IsExternalLink(m.g2) THEN SubSeq(t, i, m.last)
    ELSE <<"[">> \o m.g1 \o <<"]", "(">> \o WikiPage(m.g2) \o <<")">>

-----------------------------------------------------------------------------
(* A run of the script: the import of the module, then main *)

\* ---- the configuration file mkdocs.yml

Missing == [tag |-> "missing", v |-> <<>>]
Null == [tag |-> "null", v |-> <<>>]
Str(s) == [tag |-> "str", v |-> s]
List(l) == [tag |-> "list", v |-> l]

\* a file that is not there, cannot be read, is no YAML, is empty (safe_load
\* returns None), or holds a mapping
Config(kind, docs_dir, site_name, site_description, nav) ==
    [kind |-> kind, docs_dir |-> docs_dir, site_name |-> site_name,
     site_description |-> site_description, nav |-> nav]

NoFields(kind) == Config(kind, Missing, Missing, Missing, Missing)

\* Path("mkdocs.yml").exists()
ConfigExists(c) == c.kind # "absent"

\* open() and yaml.safe_load(): the exception raised, "" when a mapping is returned
LoadError(c) ==
    CASE c.kind = "unreadable" -> "IOError"
      [] c.kind = "malformed" -> "YAMLError"
      [] c.kind = "empty" -> "AttributeError"   \* None has no get
      [] OTHER -> ""

\* config.get(key, default)
Get(field, default) == IF field.tag = "missing" THEN default ELSE field

\* f"{value}"
Format(value) == IF value.tag = "null" THEN <<"N", "o", "n", "e">> ELSE value.v

\* truth value of a string or None
Truthy(value) == value.tag # "null" /\ value.v # <<>>

Docs == <<"d", "o", "c", "s">>
Site == <<"s", "i", "t", "e">>
Documentation == <<"D", "o", "c", "u", "m", "e", "n", "t", "a", "t", "i", "o", "n">>

\* ---- the navigation tree

StrItem(p) == [kind |-> "str", path |-> p, entries |-> <<>>]
DictItem(es) == [kind |-> "dict", path |-> <<>>, entries |-> es]
OtherItem == [kind |-> "other", path |-> <<>>, entries |-> <<>>]

PageOf(key, p) == [key |-> key, kind |-> "str", path |-> p, items |-> <<>>]
SectionOf(key, items) == [key |-> key, kind |-> "list", path |-> <<>>, items |-> items]
OtherOf(key) == [key |-> key, kind |-> "other", path |-> <<>>, items |-> <<>>]

\* lines 234-237
FullTitle(prefix, key) == IF prefix # <<>> THEN prefix \o <<" ">> \o key ELSE key

\* ---- the wiki directory

GitDir == <<".", "g", "i", "t">>
HomeMd == <<"H", "o", "m", "e">> \o DotMd
SidebarMd == <<"_", "S", "i", "d", "e", "b", "a", "r">> \o DotMd

\* open(path, 'w') and write: the file is created or replaced
WriteFile(files, name, origin) ==
    {f \in files : f.name # name} \cup {[name |-> name, from |-> origin]}

FileNames(files) == {f.name : f \in files}

\* ---- get_docs_directory, lines 18-42: [raises, docs_dir, diagnostics]
get_docs_directory(c, existing) ==
    IF ~ConfigExists(c) THEN [raises |-> FALSE, docs_dir |-> Docs, printed |-> {}]
    ELSE IF LoadError(c) \in {"IOError", "YAMLError"}
    THEN [raises |-> FALSE, docs_dir |-> Docs, printed |-> {"warning: mkdocs.yml"}]
    ELSE IF LoadError(c) # ""
    THEN [raises |-> TRUE, docs_dir |-> Docs, printed |-> {}]
    ELSE LET configured_dir == Get(c.docs_dir, Str(Docs))
         IN  IF configured_dir.tag # "str"      \* Path(None): TypeError
             THEN [raises |-> TRUE, docs_dir |-> Docs, printed |-> {}]
             ELSE IF configured_dir.v \in existing
             THEN [raises |-> FALSE, docs_dir |-> configured_dir.v, printed |-> {}]
             ELSE IF Docs \in existing
             THEN [raises |-> FALSE, docs_dir |-> Docs, printed |-> {"note: docs_dir"}]
             ELSE [raises |-> FALSE, docs_dir |-> Docs, printed |-> {}]

\* ---- parse_nav_item, lines 218-255, as the work it leaves to do, in order:
\* a dict gives one task per (key, value), a str one task, anything else none
EntryTask(e, prefix) ==
    CASE e.kind = "str" ->
           [kind |-> "page", title |-> FullTitle(prefix, e.key), path |-> e.path, items |-> <<>>]
      [] e.kind = "list" ->
           [kind |-> "section", title |-> e.key, path |-> <<>>, items |-> e.items]
      [] OTHER ->
           [kind |-> "skip", title |-> <<>>, path |-> <<>>, items |-> <<>>]

ItemTasks(item, prefix) ==
    CASE item.kind = "dict" ->
           [n \in 1..Len(item.entries) |-> EntryTask(item.entries[n], prefix)]
      [] item.kind = "str" ->
           <<[kind |-> "page", title |-> <<>>, path |-> item.path, items |-> <<>>]>>
      [] OTHER -> <<>>

RECURSIVE TasksOf(_, _)
TasksOf(items, prefix) ==
    IF items = <<>> THEN <<>>
    ELSE ItemTasks(Head(items), prefix) \o TasksOf(Tail(items), prefix)

\* ---- main, lines 352-354: the entry recorded for a scanned file
ScanEntryUntitled(name) == [title |-> <<>>, wiki_name |-> name]

ScanEntry(name) == [title |-> name, wiki_name |-> name]

\* ---- create_sidebar, lines 275-277: the list lines written
SidebarLinesAnyTitle(ps) == SelectSeq(ps, LAMBDA p : p.wiki_name # <<>>)

SidebarLines(ps) == SelectSeq(ps, LAMBDA p : p.wiki_name # <<>> /\ p.title # <<>>)

-----------------------------------------------------------------------------
(* Inputs *)

\* all concatenations of at most n fragments of F
RECURSIVE Concats(_, _)
Concats(F, n) ==
    IF n = 0 THEN {<<>>}
    ELSE LET shorter == Concats(F, n - 1)
         IN  shorter \cup {f \o s : f \in F, s \in shorter}

PathFrags == {DotMd, <<"/">>, <<"_">>, <<"-">>, <<".">>, <<"i", "n", "d", "e", "x">>, <<"a">>}

Paths == Concats(PathFrags, MaxPathFrags) \ {<<>>}

RelTarget == <<"x", "/", "y">>
ExtTarget == Http \o <<"h", "/", "p">>
AnchorTarget == <<"#", "_">>

TextFrags ==
    {<<"a">>, <<"!">>, <<"[">>, <<"]", "(">>, <<")">>,
     <<"[", "a", "]", "(">>, <<"!", "[", "a", "]", "(">>,
     RelTarget, ExtTarget, AnchorTarget}

Texts == Concats(TextFrags, MaxTextFrags)

-----------------------------------------------------------------------------
(* Path normalisation, one path at a time *)

RunIdle ==
    /\ pc = "off"
    /\ cfg = NoFields("absent")
    /\ dirs = {}
    /\ docs_files = {}
    /\ readme_exists = FALSE
    /\ wiki_exists = FALSE
    /\ wiki_files = {}
    /\ DOCS_DIR = Docs
    /\ home = <<>>
    /\ pages = <<>>
    /\ sources = <<>>
    /\ agenda = <<>>
    /\ scan_left = {}
    /\ sidebar = [site_name |-> <<>>, lines |-> <<>>]
    /\ printed = {}

NormIdle ==
    /\ npc = "off"
    /\ path = <<>>
    /\ wiki_page = <<>>
    /\ wiki_page2 = <<>>
    /\ wiki_name = <<>>
    /\ fallback_name = <<>>

LinkIdle ==
    /\ lpc = "off"
    /\ text = <<>>
    /\ pos = 1
    /\ out = <<>>

ImageIdle ==
    /\ ipc = "off"
    /\ image_path = <<>>
    /\ source_file = <<>>
    /\ environ_repo = <<>>
    /\ git = [kind |-> "ok", stdout |-> <<>>]
    /\ image_file = [exists |-> TRUE, oserror |-> FALSE]
    /\ github_repo = <<>>
    /\ image_result = <<>>
    /\ image_warned = FALSE

InitNorm ==
    /\ npc = "link"
    /\ path \in Paths
    /\ wiki_page = <<>>
    /\ wiki_page2 = <<>>
    /\ wiki_name = <<>>
    /\ fallback_name = <<>>
    /\ LinkIdle
    /\ ImageIdle
    /\ RunIdle

\* a link to path is rewritten (lines 89-96)
NormalizeLink ==
    /\ npc = "link"
    /\ wiki_page' = WikiPage(path)
    /\ npc' = "again"
    /\ UNCHANGED <<path, wiki_page2, wiki_name, fallback_name, notNorm>>

\* a link to the page so named is rewritten in turn
NormalizeAgain ==
    /\ npc = "again"
    /\ wiki_page2' = WikiPage(wiki_page)
    /\ npc' = "nav"
    /\ UNCHANGED <<path, wiki_page, wiki_name, fallback_name, notNorm>>

\* path is the value of a navigation entry (lines 231-232, 250-251)
NameNavEntry ==
    /\ npc = "nav"
    /\ wiki_name' = NavWikiName(path)
    /\ npc' = "fallback"
    /\ UNCHANGED <<path, wiki_page, wiki_page2, fallback_name, notNorm>>

\* the parts of a path between its separators
RECURSIVE Segments(_)
Segments(p) ==
    LET i == Find(p, "/", 1)
    IN  IF i = 0 THEN <<p>> ELSE <<SubSeq(p, 1, i - 1)>> \o Segments(SubSeq(p, i + 1, Len(p)))

\* lines 349-351: a path DOCS_DIR.rglob("*.md") yields, relative to DOCS_DIR
IsScannedPath(p) ==
    /\ EndsWith(p, DotMd)
    /\ \A n \in 1..Len(Segments(p)) : Segments(p)[n] \notin {<<>>, <<".">>, <<".", ".">>}

\* path is a file the fallback scan finds (line 352)
NameScannedFile ==
    /\ npc = "fallback"
    /\ IsScannedPath(path)
    /\ fallback_name' = FallbackWikiName(path)
    /\ npc' = "done"
    /\ UNCHANGED <<path, wiki_page, wiki_page2, wiki_name, notNorm>>

\* path is no file the fallback scan can find
NotScanned ==
    /\ npc = "fallback"
    /\ ~IsScannedPath(path)
    /\ npc' = "done"
    /\ UNCHANGED <<path, wiki_page, wiki_page2, wiki_name, fallback_name, notNorm>>

NextNorm == NormalizeLink \/ NormalizeAgain \/ NameNavEntry \/ NameScannedFile \/ NotScanned

SpecNorm == InitNorm /\ [][NextNorm]_vars

-----------------------------------------------------------------------------
(* Link rewriting, one text at a time: the scan of re.sub (line 100) *)

InitLink ==
    /\ lpc = "scan"
    /\ text \in Texts
    /\ pos = 1
    /\ out = <<>>
    /\ NormIdle
    /\ ImageIdle
    /\ RunIdle

\* no match starts here: the character is copied
LinkCopy ==
    /\ lpc = "scan"
    /\ pos <= Len(text)
    /\ ~LinkMatch(text, pos).ok
    /\ out' = Append(out, text[pos])
    /\ pos' = pos + 1
    /\ UNCHANGED <<lpc, text, notLink>>

\* a match starts here and replace_link gives its replacement
LinkReplace ==
    /\ lpc = "scan"
    /\ pos <= Len(text)
    /\ LinkMatch(text, pos).ok
    /\ out' = out \o replace_link(text, pos, LinkMatch(text, pos))
    /\ pos' = LinkMatch(text, pos).last + 1
    /\ UNCHANGED <<lpc, text, notLink>>

\* the scan reached the end of the text
LinkDone ==
    /\ lpc = "scan"
    /\ pos > Len(text)
    /\ lpc' = "done"
    /\ UNCHANGED <<text, pos, out, notLink>>

NextLink == LinkCopy \/ LinkReplace \/ LinkDone

SpecLink == InitLink /\ [][NextLink]_vars

-----------------------------------------------------------------------------
(* Image references: replace_image (lines 109-176), one reference at a time *)

\* pathlib: the components of a path string ("" and "." are dropped)
PathParts(p) ==
    LET segs == Segments(p)
    IN  SelectSeq(segs, LAMBDA c : c \notin {<<>>, <<".">>})

IsAbsolute(p) == p # <<>> /\ Head(p) = "/"

\* Path.resolve() on components counted from the filesystem root: ".." leaves
\* a directory, and the root is its own parent (no symbolic links are modelled)
RECURSIVE Collapse(_, _)
Collapse(done, rest) ==
    IF rest = <<>> THEN done
    ELSE IF Head(rest) = <<".", ".">>
         THEN Collapse(IF done = <<>> THEN done ELSE SubSeq(done, 1, Len(done) - 1), Tail(rest))
         ELSE Collapse(Append(done, Head(rest)), Tail(rest))

\* Path.cwd(), line 163
RepoRoot == <<(<<"w">>), (<<"r">>)>>

\* lines 159-160: (source_file.parent / image_path).resolve()
ImageAbsPath(src, img) ==
    LET source_dir == SubSeq(src, 1, Len(src) - 1)
    IN  IF IsAbsolute(img) THEN Collapse(<<>>, PathParts(img))
        ELSE Collapse(<<>>, RepoRoot \o source_dir \o PathParts(img))

\* line 164: relative_to(repo_root) raises ValueError outside the root
InsideRoot(abs) == Len(abs) >= Len(RepoRoot) /\ SubSeq(abs, 1, Len(RepoRoot)) = RepoRoot

RECURSIVE Join(_, _)
Join(parts, sep) ==
    IF parts = <<>> THEN <<>>
    ELSE IF Len(parts) = 1 THEN Head(parts)
    ELSE Head(parts) \o sep \o Join(Tail(parts), sep)

\* lines 164-167: str(image_abs_path.relative_to(repo_root)).replace('\\', '/')
ImageRelPathStr(abs) ==
    LET rel == SubSeq(abs, Len(RepoRoot) + 1, Len(abs))
    IN  Replace(IF rel = <<>> THEN <<".">> ELSE Join(rel, <<"/">>), <<"\\">>, <<"/">>)

\* line 170
WikiImagePath(repo, abs) == RawPrefix \o repo \o MainBranch \o ImageRelPathStr(abs)

\* lines 130-144: the part of the remote URL after a GitHub prefix, <<>> for None
RepoPart(stdout) ==
    LET remote_url == Strip(stdout, {" ", "\n"})
    IN  IF StartsWith(remote_url, GITHUB_HTTPS_PREFIX)
        THEN SubSeq(remote_url, Len(GITHUB_HTTPS_PREFIX) + 1, Len(remote_url))
        ELSE IF StartsWith(remote_url, GITHUB_HTTP_PREFIX)
        THEN SubSeq(remote_url, Len(GITHUB_HTTP_PREFIX) + 1, Len(remote_url))
        ELSE IF StartsWith(remote_url, GITHUB_GIT_PREFIX)
        THEN SubSeq(remote_url, Len(GITHUB_GIT_PREFIX) + 1, Len(remote_url))
        ELSE <<>>

\* line 147
RepoFromPart(repo_part) == Replace(Strip(repo_part, {"/"}), DotGit, <<>>)

\* line 114
IsExternalImage(img) == StartsWith(img, Http) \/ StartsWith(img, Https)

OwnerRepo == <<"o", "/", "r">>

RemoteUrls ==
    {GITHUB_HTTPS_PREFIX \o OwnerRepo \o DotGit \o <<"\n">>,
     GITHUB_HTTP_PREFIX \o OwnerRepo \o <<"\n">>,
     GITHUB_GIT_PREFIX \o OwnerRepo \o DotGit \o <<"\n">>,
     Https \o <<"g", "i", "t", "l", "a", "b", ".", "c", "o", "m", "/">> \o OwnerRepo \o <<"\n">>,
     GITHUB_HTTPS_PREFIX,
     <<>>}

\* what subprocess.run (lines 123-129) can do: return the remote's URL, or
\* raise CalledProcessError (check=True), TimeoutExpired (timeout=5), or
\* FileNotFoundError when there is no git to execute
GitOutcomes ==
    {[kind |-> "ok", stdout |-> u] : u \in RemoteUrls}
    \cup {[kind |-> k, stdout |-> <<>>] :
             k \in {"CalledProcessError", "TimeoutExpired", "FileNotFoundError"}}

ImagePaths ==
    {<<".", ".", "/", "a", "/", "p">>,            \* ../a/p
     <<"p">>,                                     \* beside the document
     <<".", ".", "/", ".", ".", "/", ".", ".", "/", "x">>,  \* above the root
     <<"/", "e", "/", "p">>,                      \* absolute, outside the root
     Http \o <<"h", "/", "p">>,
     Https \o <<"h", "/", "p">>}

SourceFiles == {<<(<<"d">>), (<<"g">>), (<<"f">>)>>, <<(<<"d">>), (<<"f">>)>>}

InitImage ==
    /\ ipc = "start"
    /\ image_path \in ImagePaths
    /\ source_file \in SourceFiles
    /\ environ_repo \in {<<>>, OwnerRepo}
    /\ git \in GitOutcomes
    /\ image_file \in [exists : BOOLEAN, oserror : BOOLEAN]
    /\ github_repo = <<>>
    /\ image_result = <<>>
    /\ image_warned = FALSE
    /\ NormIdle
    /\ LinkIdle
    /\ RunIdle

\* lines 114-115: an external image is returned as it is
ImageSkipExternal ==
    /\ ipc = "start"
    /\ IsExternalImage(image_path)
    /\ ipc' = "done"
    /\ UNCHANGED <<image_path, source_file, environ_repo, git, image_file, github_repo,
                   image_result, image_warned, notImage>>

\* lines 118-120: GITHUB_REPOSITORY is set
ImageEnvIdentity ==
    /\ ipc = "start"
    /\ ~IsExternalImage(image_path)
    /\ environ_repo # <<>>
    /\ github_repo' = environ_repo
    /\ ipc' = "resolve"
    /\ UNCHANGED <<image_path, source_file, environ_repo, git, image_file,
                   image_result, image_warned, notImage>>

\* lines 121-148: git names a GitHub remote
ImageGitIdentity ==
    /\ ipc = "start"
    /\ ~IsExternalImage(image_path)
    /\ environ_repo = <<>>
    /\ git.kind = "ok"
    /\ RepoPart(git.stdout) # <<>>
    /\ github_repo' = RepoFromPart(RepoPart(git.stdout))
    /\ ipc' = "resolve"
    /\ UNCHANGED <<image_path, source_file, environ_repo, git, image_file,
                   image_result, image_warned, notImage>>

\* lines 149-151: the remote is no GitHub URL
ImageNotGitHub ==
    /\ ipc = "start"
    /\ ~IsExternalImage(image_path)
    /\ environ_repo = <<>>
    /\ git.kind = "ok"
    /\ RepoPart(git.stdout) = <<>>
    /\ image_warned' = TRUE
    /\ ipc' = "done"
    /\ UNCHANGED <<image_path, source_file, environ_repo, git, image_file, github_repo,
                   image_result, notImage>>

\* lines 152-154: the two exceptions the handler names
ImageGitFailed ==
    /\ ipc = "start"
    /\ ~IsExternalImage(image_path)
    /\ environ_repo = <<>>
    /\ git.kind \in {"CalledProcessError", "TimeoutExpired"}
    /\ image_warned' = TRUE
    /\ ipc' = "done"
    /\ UNCHANGED <<image_path, source_file, environ_repo, git, image_file, github_repo,
                   image_result, notImage>>

\* lines 123-129, 152: any other exception of subprocess.run leaves
\* replace_image, re.sub and convert_image_paths
ImageGitRaised ==
    /\ ipc = "start"
    /\ ~IsExternalImage(image_path)
    /\ environ_repo = <<>>
    /\ git.kind \notin {"ok", "CalledProcessError", "TimeoutExpired"}
    /\ ipc' = "raised"
    /\ UNCHANGED <<image_path, source_file, environ_repo, git, image_file, github_repo,
                   image_result, image_warned, notImage>>

\* lines 157-170, 176: the path resolves under the repository root; whether the
\* file exists is not looked at (resolve() is not strict)
ImageResolve ==
    /\ ipc = "resolve"
    /\ ~image_file.oserror
    /\ InsideRoot(ImageAbsPath(source_file, image_path))
    /\ image_result' = WikiImagePath(github_repo, ImageAbsPath(source_file, image_path))
    /\ ipc' = "done"
    /\ UNCHANGED <<image_path, source_file, environ_repo, git, image_file, github_repo,
                   image_warned, notImage>>

\* lines 171-174: ValueError of relative_to, OSError of resolve
ImageResolveFailed ==
    /\ ipc = "resolve"
    /\ image_file.oserror \/ ~InsideRoot(ImageAbsPath(source_file, image_path))
    /\ image_warned' = TRUE
    /\ ipc' = "done"
    /\ UNCHANGED <<image_path, source_file, environ_repo, git, image_file, github_repo,
                   image_result, notImage>>

NextImage ==
    \/ ImageSkipExternal
    \/ ImageEnvIdentity
    \/ ImageGitIdentity
    \/ ImageNotGitHub
    \/ ImageGitFailed
    \/ ImageGitRaised
    \/ ImageResolve
    \/ ImageResolveFailed

SpecImage == InitImage /\ [][NextImage]_vars


\* ---- create_wiki_page, lines 200-216: the wiki files after the call
create_wiki_page(files, file_path, name, existing) ==
    IF file_path \notin existing THEN files
    ELSE WriteFile(files, name \o DotMd, <<file_path>>)

\* ---- inputs of a run

IndexMd == <<"i", "n", "d", "e", "x">> \o DotMd
PathA == <<"a">> \o DotMd
PathB == <<"b">> \o DotMd
GuideIndexMd == <<"g", "/">> \o IndexMd
KeyA == <<"A">>
KeyB == <<"B">>
KeyS == <<"S">>
KeyT == <<"T">>

\* all sequences of at most n elements of S
RECURSIVE UpTo(_, _)
UpTo(S, n) ==
    IF n = 0 THEN {<<>>}
    ELSE LET shorter == UpTo(S, n - 1)
         IN  shorter \cup {<<x>> \o s : x \in S, s \in shorter}

\* a bare path, a titled page whose document is there, one whose document may be missing
NavLeaves == {StrItem(PathA), DictItem(<<PageOf(KeyA, PathA)>>), DictItem(<<PageOf(KeyB, PathB)>>)}

\* a section of bare paths and titled pages
NavSections ==
    {DictItem(<<SectionOf(KeyS, c)>>) :
        c \in UpTo({StrItem(PathA), DictItem(<<PageOf(KeyA, PathA)>>)}, MaxChildren)}

\* a section in a section, a mapping of two pages, a key without a value, a number
NavOthers ==
    {DictItem(<<SectionOf(KeyS, <<DictItem(<<SectionOf(KeyT, <<DictItem(<<PageOf(KeyA, PathA)>>)>>)>>),
                                  DictItem(<<PageOf(KeyB, PathB)>>)>>)>>),
     DictItem(<<PageOf(KeyB, PathB), PageOf(KeyA, PathA)>>),
     DictItem(<<OtherOf(KeyA)>>),
     OtherItem}

NavTrees == UpTo(NavLeaves \cup NavSections \cup NavOthers, MaxNav)

WikiStates ==
    {[exists |-> FALSE, files |-> {}],
     [exists |-> TRUE, files |-> {}],
     [exists |-> TRUE, files |-> {[name |-> GitDir, from |-> <<"(kept)">>],
                                  [name |-> HomeMd, from |-> <<"(stale)">>],
                                  [name |-> <<"O">> \o DotMd, from |-> <<"(stale)">>]}]}

World(c, d, fs, r, w) ==
    [cfg |-> c, dirs |-> d, docs_files |-> fs, readme_exists |-> r, wiki |-> w]

\* no configuration file, any filesystem
FallbackWorlds ==
    {World(NoFields("absent"), d, fs, r, w) :
        d \in SUBSET {Docs, Site},
        fs \in SUBSET {IndexMd, PathA, GuideIndexMd, DotMd},
        r \in BOOLEAN,
        w \in WikiStates}

\* a configuration file that cannot be used, or one with fields left out or null
PlainConfigs ==
    {NoFields("unreadable"), NoFields("malformed"), NoFields("empty")}
    \cup {Config("mapping", dd, sn, sd, nv) :
            dd \in {Missing, Null, Str(Docs), Str(Site)},
            sn \in {Missing, Null, Str(<<"N">>)},
            sd \in {Missing, Null, Str(<<"D">>)},
            nv \in {Missing, Null, List(<<>>), List(<<DictItem(<<PageOf(KeyA, PathA)>>)>>)}}

PlainWorlds ==
    {World(c, d, fs, r, w) :
        c \in PlainConfigs,
        d \in SUBSET {Docs, Site},
        fs \in {{}, {IndexMd, PathA}},
        r \in BOOLEAN,
        w \in {w \in WikiStates : w.exists <=> w.files # {}}}

\* a configuration with a navigation tree
NavWorlds ==
    {World(Config("mapping", Missing, Str(<<"N">>), Missing, List(nv)), {Docs}, fs, FALSE, w) :
        nv \in NavTrees,
        fs \in {{PathA}, {PathA, PathB}},
        w \in {w \in WikiStates : w.files # {}}}

InitRun ==
    /\ \E w \in FallbackWorlds \cup PlainWorlds \cup NavWorlds :
        /\ cfg = w.cfg
        /\ dirs = w.dirs
        /\ docs_files = w.docs_files
        /\ readme_exists = w.readme_exists
        /\ wiki_exists = w.wiki.exists
        /\ wiki_files = w.wiki.files
    /\ pc = "import"
    /\ DOCS_DIR = Docs
    /\ home = <<>>
    /\ pages = <<>>
    /\ sources = <<>>
    /\ agenda = <<>>
    /\ scan_left = {}
    /\ sidebar = [site_name |-> <<>>, lines |-> <<>>]
    /\ printed = {}
    /\ NormIdle
    /\ LinkIdle
    /\ ImageIdle

world == <<cfg, dirs, docs_files, readme_exists, wiki_exists>>

\* the markdown files under directory d
FilesUnder(d) == IF d \in dirs THEN docs_files ELSE {}

\* line 50, at import: DOCS_DIR = Path(get_docs_directory())
GetDocsDirectory ==
    /\ pc = "import"
    /\ LET r == get_docs_directory(cfg, dirs)
       IN  /\ pc' = IF r.raises THEN "aborted" ELSE "clean"
           /\ DOCS_DIR' = r.docs_dir
           /\ printed' = printed \cup r.printed
    /\ UNCHANGED <<world, wiki_files, home, pages, sources, agenda, scan_left, sidebar, notRun>>

\* clean_wiki_dir, lines 54-65
CleanWikiDir ==
    /\ pc = "clean"
    /\ IF ~wiki_exists
       THEN /\ printed' = printed \cup {"wiki directory does not exist"}
            /\ UNCHANGED wiki_files
       ELSE /\ wiki_files' = {f \in wiki_files : f.name = GitDir}
            /\ UNCHANGED printed
    /\ pc' = "home"
    /\ UNCHANGED <<world, DOCS_DIR, home, pages, sources, agenda, scan_left, sidebar, notRun>>

\* create_home_page, lines 285-331
CreateHomePage ==
    /\ pc = "home"
    /\ LET synth == IndexMd \notin FilesUnder(DOCS_DIR) /\ ~readme_exists
           reads == synth /\ ConfigExists(cfg)
           caught == reads /\ LoadError(cfg) \in {"IOError", "YAMLError"}
           raised == reads /\ LoadError(cfg) \notin {"", "IOError", "YAMLError"}
           usable == reads /\ LoadError(cfg) = ""
           site_name == IF usable THEN Get(cfg.site_name, Str(Documentation))
                        ELSE Str(Documentation)
           site_description == IF usable THEN Get(cfg.site_description, Str(<<>>))
                               ELSE Str(<<>>)
           content ==
               IF IndexMd \in FilesUnder(DOCS_DIR) THEN <<IndexMd>>
               ELSE IF readme_exists THEN <<"(README.md)">>
               ELSE <<"(site)", Format(site_name),
                      IF Truthy(site_description) THEN Format(site_description) ELSE <<>>>>
       IN  IF raised \/ ~wiki_exists           \* line 328: open() in a missing directory
           THEN /\ pc' = "aborted"
                /\ printed' = IF caught THEN printed \cup {"warning: mkdocs.yml"} ELSE printed
                /\ UNCHANGED <<wiki_files, home>>
           ELSE /\ pc' = "nav"
                /\ printed' = IF caught THEN printed \cup {"warning: mkdocs.yml"} ELSE printed
                /\ home' = content
                /\ wiki_files' = WriteFile(wiki_files, HomeMd, content)
    /\ UNCHANGED <<world, DOCS_DIR, pages, sources, agenda, scan_left, sidebar, notRun>>

\* main, lines 345-349: no mkdocs.yml, the files of DOCS_DIR.rglob("*.md")
StartScan ==
    /\ pc = "nav"
    /\ ~ConfigExists(cfg)
    /\ printed' = printed \cup {"warning: mkdocs.yml not found"}
    /\ scan_left' = FilesUnder(DOCS_DIR)
    /\ pc' = "scan"
    /\ UNCHANGED <<world, wiki_files, DOCS_DIR, home, pages, sources, agenda, sidebar, notRun>>

\* main, lines 349-354: one file of the scan, in any order
ScanFile ==
    /\ pc = "scan"
    /\ \E md_file \in scan_left :
        LET name == FallbackWikiName(md_file)
        IN  /\ wiki_files' = create_wiki_page(wiki_files, md_file, name, FilesUnder(DOCS_DIR))
            /\ pages' = Append(pages, ScanEntry(name))
            /\ sources' = Append(sources, md_file)
            /\ scan_left' = scan_left \ {md_file}
    /\ UNCHANGED <<world, pc, DOCS_DIR, home, agenda, sidebar, printed, notRun>>

ScanDone ==
    /\ pc = "scan"
    /\ scan_left = {}
    /\ pc' = "sidebar"
    /\ UNCHANGED <<world, wiki_files, DOCS_DIR, home, pages, sources, agenda, scan_left,
                   sidebar, printed, notRun>>

\* main, lines 356-362: the configuration is read with no handler around it
ReadNav ==
    /\ pc = "nav"
    /\ ConfigExists(cfg)
    /\ LET nav == Get(cfg.nav, List(<<>>))
       IN  IF LoadError(cfg) # "" \/ nav.tag # "list"     \* for item in None: TypeError
           THEN pc' = "aborted" /\ UNCHANGED agenda
           ELSE pc' = "walk" /\ agenda' = TasksOf(nav.v, <<>>)
    /\ UNCHANGED <<world, wiki_files, DOCS_DIR, home, pages, sources, scan_left, sidebar,
                   printed, notRun>>

\* parse_nav_item, lines 227-240 and 247-253: one page of the navigation
WalkPage ==
    /\ pc = "walk"
    /\ agenda # <<>>
    /\ Head(agenda).kind = "page"
    /\ LET task == Head(agenda)
           name == NavWikiName(task.path)
       IN  /\ wiki_files' = create_wiki_page(wiki_files, task.path, name, FilesUnder(DOCS_DIR))
           /\ printed' = IF task.path \in FilesUnder(DOCS_DIR) THEN printed
                         ELSE printed \cup {"warning: file does not exist"}
           /\ pages' = Append(pages, [title |-> task.title, wiki_name |-> name])
           /\ sources' = Append(sources, task.path)
    /\ agenda' = Tail(agenda)
    /\ UNCHANGED <<world, pc, DOCS_DIR, home, scan_left, sidebar, notRun>>

\* parse_nav_item, lines 242-246: a section, its items parsed under its key
WalkSection ==
    /\ pc = "walk"
    /\ agenda # <<>>
    /\ Head(agenda).kind = "section"
    /\ agenda' = TasksOf(Head(agenda).items, Head(agenda).title) \o Tail(agenda)
    /\ UNCHANGED <<world, pc, wiki_files, DOCS_DIR, home, pages, sources, scan_left, sidebar,
                   printed, notRun>>

\* parse_nav_item: a value that is neither a string nor a list
WalkSkip ==
    /\ pc = "walk"
    /\ agenda # <<>>
    /\ Head(agenda).kind = "skip"
    /\ agenda' = Tail(agenda)
    /\ UNCHANGED <<world, pc, wiki_files, DOCS_DIR, home, pages, sources, scan_left, sidebar,
                   printed, notRun>>

WalkDone ==
    /\ pc = "walk"
    /\ agenda = <<>>
    /\ pc' = "sidebar"
    /\ UNCHANGED <<world, wiki_files, DOCS_DIR, home, pages, sources, agenda, scan_left,
                   sidebar, printed, notRun>>

\* create_sidebar, lines 257-283
CreateSidebar ==
    /\ pc = "sidebar"
    /\ LET reads == ConfigExists(cfg)
           caught == reads /\ LoadError(cfg) \in {"IOError", "YAMLError"}
           raised == reads /\ LoadError(cfg) \notin {"", "IOError", "YAMLError"}
           site_name == IF reads /\ LoadError(cfg) = ""
                        THEN Get(cfg.site_name, Str(Documentation))
                        ELSE Str(Documentation)
       IN  IF raised \/ ~wiki_exists
           THEN /\ pc' = "aborted"
                /\ UNCHANGED <<sidebar, wiki_files, printed>>
           ELSE /\ pc' = "done"
                /\ sidebar' = [site_name |-> Format(site_name), lines |-> SidebarLines(pages)]
                /\ wiki_files' = WriteFile(wiki_files, SidebarMd, <<"(sidebar)">>)
                /\ printed' = IF caught THEN printed \cup {"warning: mkdocs.yml"} ELSE printed
    /\ UNCHANGED <<world, DOCS_DIR, home, pages, sources, agenda, scan_left, notRun>>

NextRun ==
    \/ GetDocsDirectory
    \/ CleanWikiDir
    \/ CreateHomePage
    \/ StartScan
    \/ ScanFile
    \/ ScanDone
    \/ ReadNav
    \/ WalkPage
    \/ WalkSection
    \/ WalkSkip
    \/ WalkDone
    \/ CreateSidebar

SpecRun == InitRun /\ [][NextRun]_vars

-----------------------------------------------------------------------------
(* Claims about a run *)

\* mkdocs.yml is there but malformed, unreadable or empty, or it lacks or
\* nulls one of its fields
Defective(c) ==
    /\ ConfigExists(c)
    /\ \/ c.kind \in {"unreadable", "malformed", "empty"}
       \/ \E f \in {c.docs_dir, c.site_name, c.site_description, c.nav} :
             f.tag \in {"missing", "null"}

\* C1: a configuration-read failure never aborts the run: with such a
\* mkdocs.yml every step that reads it warns at most and the run goes on.
C1_ConfigFailureNeverAborts ==
    (Defective(cfg) /\ wiki_exists) => pc # "aborted"

\* C2: without a configuration file the run never raises, whatever the
\* filesystem holds, and ends with Home.md and _Sidebar.md written.
C2_AbsentConfigCompletes ==
    ~ConfigExists(cfg) =>
        /\ pc # "aborted"
        /\ pc = "done" => {HomeMd, SidebarMd} \subseteq FileNames(wiki_files)

FallbackDone == pc = "done" /\ ~ConfigExists(cfg)

RECURSIVE Fringe(_)
Fringe(items) ==
    IF items = <<>> THEN <<>>
    ELSE LET item == Head(items)
             OfEntry(e) == CASE e.kind = "str" -> <<e.path>>
                             [] e.kind = "list" -> Fringe(e.items)
                             [] OTHER -> <<>>
             OfEntries[n \in 0..Len(item.entries)] ==
                 IF n = 0 THEN <<>> ELSE OfEntries[n - 1] \o OfEntry(item.entries[n])
         IN  (CASE item.kind = "str" -> <<item.path>>
                [] item.kind = "dict" -> OfEntries[Len(item.entries)]
                [] OTHER -> <<>>)
             \o Fringe(Tail(items))

\* the entries of ps with a title and an identifier, in order
RECURSIVE Listed(_)
Listed(ps) ==
    IF ps = <<>> THEN <<>>
    ELSE IF Head(ps).title = <<>> \/ Head(ps).wiki_name = <<>> THEN Listed(Tail(ps))
    ELSE <<Head(ps)>> \o Listed(Tail(ps))

NavDone == pc = "done" /\ ConfigExists(cfg)

\* C9: the sidebar holds exactly one list line per PageEntry whose title and
\* identifier are both non-empty, none for the others, in traversal order;
\* and the traversal is the depth-first, input-order walk of the navigation
\* tree, duplicates kept.
C9_SidebarInTraversalOrder ==
    /\ pc = "done" => sidebar.lines = Listed(pages)
    /\ NavDone =>
          /\ sources = Fringe(Get(cfg.nav, List(<<>>)).v)
          /\ Len(pages) = Len(sources)
          /\ \A i \in DOMAIN pages : pages[i].wiki_name = NavWikiName(sources[i])

C9_Witness ==
    /\ NavDone
    /\ \E i \in DOMAIN pages : pages[i].title = <<>>
    /\ \E i \in DOMAIN pages : pages[i].title = KeyS \o <<" ">> \o KeyA
    /\ \E m, n \in DOMAIN sidebar.lines : m < n /\ sidebar.lines[m] = sidebar.lines[n]
    /\ Len(sidebar.lines) < Len(pages)

\* C10: at the end of a run every list entry of the sidebar refers to a page
\* written during the run, from the document the entry was recorded for; a
\* navigation entry whose document is missing yields no line.
C10_SidebarEntriesWritten ==
    pc = "done" =>
        \A i \in DOMAIN pages :
            (pages[i].title # <<>> /\ pages[i].wiki_name # <<>>) =>
                [name |-> pages[i].wiki_name \o DotMd, from |-> <<sources[i]>>] \in wiki_files

-----------------------------------------------------------------------------
(* Claims about the path normaliser and the link rewriter *)

\* C3: the Path Normalizer is idempotent: the steps of lines 89-96 applied to
\* an identifier they produced return it unchanged.
C3_NormalizerIdempotent ==
    npc \in {"nav", "fallback", "done"} => wiki_page2 = wiki_page

\* C6: the name the Navigation Walker records and writes a document under, in
\* navigation mode and in fallback mode, is the target the Link Rewriter
\* produces for a link to that document's path.
C6_WalkerNameIsLinkTarget ==
    npc = "done" =>
        /\ wiki_name = wiki_page
        /\ IsScannedPath(path) => fallback_name = wiki_page

\* the image references of t: every substring the image pattern matches
ImagesOf(t) ==
    {SubSeq(t, i, ImageMatch(t, i).last) : i \in {n \in 1..Len(t) : ImageMatch(t, n).ok}}

\* the inline links of t whose target is external or a same-page anchor
ExternalLinksOf(t) ==
    {SubSeq(t, i, LinkMatch(t, i).last) :
        i \in {n \in 1..Len(t) : LinkMatch(t, n).ok /\ IsExternalLink(LinkMatch(t, n).g2)}}

\* C4: the Link Rewriter never modifies image syntax: every image reference
\* of the text, nested in a link label or not, stands unchanged in the output.
C4_ImagesUntouched ==
    lpc = "done" => \A img \in ImagesOf(text) : Contains(out, img)

\* C5: the Link Rewriter never modifies a link whose target starts with
\* http://, https:// or #, whatever precedes or surrounds it.
C5_ExternalLinksUntouched ==
    lpc = "done" => \A lnk \in ExternalLinksOf(text) : Contains(out, lnk)

\* the repository identity cannot be determined: no override, and the query
\* fails, times out, cannot be executed or returns no GitHub URL
IdentityUnavailable ==
    /\ environ_repo = <<>>
    /\ git.kind # "ok" \/ RepoPart(git.stdout) = <<>>

\* the path does not resolve: outside the root, no such file, an I/O error
ResolutionFails ==
    \/ ~InsideRoot(ImageAbsPath(source_file, image_path))
    \/ ~image_file.exists
    \/ image_file.oserror

\* C8: a bad image reference never aborts processing: when the identity
\* cannot be determined or the path does not resolve, the reference is left
\* untouched, a diagnostic is printed and nothing is raised.
C8_BadImageLeftUntouched ==
    (/\ ipc \in {"done", "raised"}
     /\ ~IsExternalImage(image_path)
     /\ IdentityUnavailable \/ ResolutionFails)
    => (ipc = "done" /\ image_result = <<>> /\ image_warned)

\* the example of the spec's section 8: ![x](../assets/pic.png) in
\* docs/guide/page.md is given the URL .../main/docs/assets/pic.png
ImageExample ==
    (/\ ipc = "done"
     /\ image_path = <<".", ".", "/", "a", "/", "p">>
     /\ source_file = <<(<<"d">>), (<<"g">>), (<<"f">>)>>
     /\ image_result # <<>>)
    => image_result = RawPrefix \o OwnerRepo \o MainBranch \o <<"d", "/", "a", "/", "p">>

====
